---- MODULE Spec2Model ----
(***************************************************************************)
(* Model of the decision loop of the KAI repository-maintenance agent:     *)
(* agent_core.main / agent_core.process_repo, the score and delta          *)
(* functions of agent_core and kai_decision_engine, and the candidate      *)
(* applier.  The external collaborators (git, GitHub, pytest, flake8, the  *)
(* generative backend, the operator who creates or removes the kill-switch *)
(* file) are nondeterministic choices.                                     *)
(***************************************************************************)
EXTENDS Integers, Sequences, FiniteSets, TLC

\* ------------------------------------------------------------------ bounds
\* Length of the allowlist read from repos.txt.
MaxRepos == 2
\* Number of candidates the planner returns for one repository.
MaxCands == 2
\* A configured IMPROVEMENT_MARGIN above 100 percent.
HighMargin == 150

\* --------------------------------------------------------- program constants
\* agent_core.py:11  float(CONFIG.get("IMPROVEMENT_MARGIN",5.0))
DefaultMargin == 5
\* evaluator.py:27   lint_count = 9999 when flake8 could not be run
LintSentinel == 9999

\* agent_core.py:12  MAX_ITER = int(CONFIG.get("MAX_ITERATIONS",10)), here an
\* iteration budget of one candidate set in agent_config.json
MAX_ITER == 1

\* Values the configuration file may give to IMPROVEMENT_MARGIN.
Margins == {DefaultMargin, 100, HighMargin}

\* Issue counts flake8 may report (line count of its output), and the sentinel.
LintCounts == {0, 20, LintSentinel}

\* What the quality tools do in one run of compute_quality:
\*   marker      repo_dir has a tests directory or a pytest.ini
\*   pytest      exit status 0, exit status not 0, or the process did not start
\*   pytest_out  writing the pytest output to the artifacts directory
\*   flake8      reported its findings (lines of output, none when clean),
\*               crashed (non-zero exit, message on stderr, nothing on stdout),
\*               or the process did not start
\*   flake8_out  writing the flake8 output to the artifacts directory
ToolRuns ==
  [marker : BOOLEAN, pytest : {"exit0", "exit1", "not_started"},
   pytest_out : {"written", "write_failed"},
   flake8 : {"reported"}, lines : LintCounts \ {LintSentinel},
   flake8_out : {"written", "write_failed"}]
  \cup
  [marker : BOOLEAN, pytest : {"exit0", "exit1", "not_started"},
   pytest_out : {"written", "write_failed"},
   flake8 : {"crashed", "not_started"}, lines : {0},
   flake8_out : {"written", "write_failed"}]

\* An except clause catches the exception when it names its class or a base.
Catches(clause, exc) == clause = "Exception" \/ clause = exc

\* compute_quality, the pytest block: the exception its try body ends with
TestsRaise(t) ==
  IF ~t.marker THEN "none"
  ELSE IF t.pytest = "not_started" THEN "OSError"
  ELSE IF t.pytest_out = "write_failed" THEN "OSError"
  ELSE "none"

\* compute_quality, the flake8 block: the exception its try body ends with
LintRaise(t) ==
  IF t.flake8 = "not_started" THEN "OSError"
  ELSE IF t.flake8_out = "write_failed" THEN "OSError"
  ELSE "none"

\* compute_quality with the given except clauses: tests_ok starts True and is
\* r.returncode == 0 after a run, False in the handler; lint_count starts 0,
\* is the number of stdout lines, 9999 in the handler.  No return code of
\* flake8 is looked at.
quality_run(t, tests_clause, lint_clause) ==
  [raised |-> \/ (TestsRaise(t) # "none" /\ ~Catches(tests_clause, TestsRaise(t)))
              \/ (LintRaise(t) # "none" /\ ~Catches(lint_clause, LintRaise(t))),
   tests  |-> IF TestsRaise(t) # "none" THEN FALSE
              ELSE IF t.marker THEN t.pytest = "exit0" ELSE TRUE,
   lint   |-> IF LintRaise(t) # "none" THEN LintSentinel
              ELSE IF t.flake8 = "reported" THEN t.lines ELSE 0]

\* evaluator.compute_quality
evaluator_compute_quality_narrow(t) == quality_run(t, "CalledProcessError", "Exception")

evaluator_compute_quality(t) == quality_run(t, "Exception", "Exception")

\* kai_decision_engine.compute_quality
engine_compute_quality(t) == quality_run(t, "Exception", "Exception")

\* (tests_ok, lint_count) pairs compute_quality may return.
Measurements ==
  {[tests |-> evaluator_compute_quality(t).tests, lint |-> evaluator_compute_quality(t).lint] :
     t \in ToolRuns}

NoMeasurement == [tests |-> TRUE, lint |-> 0]

NoRun == [impl |-> "none"]

\* ------------------------------------------------------------------- paths
\* A path is a sequence of components; a candidate's "file" is a path that
\* is relative or absolute.
Cwd == <<"cwd">>
\* agent_core.py:60  work = Path("_kai_work")
WorkDir == Cwd \o <<"_kai_work">>
\* agent_core.py:71  repo_dir = work / full.split("/",1)[1]
RepoDir(r) == WorkDir \o << "repo" \o ToString(r) >>

\* The "file" fields the generative backend may put into a candidate.
CandFiles ==
  { [abs |-> FALSE, parts |-> <<"a.py">>],
    [abs |-> FALSE, parts |-> <<"..", "x.py">>],
    [abs |-> TRUE,  parts |-> <<"etc", "x.py">>] }

Candidates == [file : CandFiles, new_content : {"new"}, reason : {"why"}]

NoCandidate == [file |-> [abs |-> FALSE, parts |-> <<>>], new_content |-> "", reason |-> ""]

\* What the generative backend may answer (llm_adapter.call_llm):
\*   unavailable  the sentinel "LLM_UNAVAILABLE"
\*   text         text that is not JSON
\*   scalar       JSON that is a number, true, false or null
\*   object       JSON that is an object or a string (iterating gives strings)
\*   list         a JSON array
Responses ==
  [kind : {"unavailable", "text"}, len : {0}]
    \cup [kind : {"scalar"}, len : {0}]
    \cup [kind : {"object", "list"}, len : 0..MaxCands]

\* planner.propose_candidates: json.loads(resp), [] when it raises
propose_candidates(r) ==
  IF r.kind \in {"unavailable", "text"} THEN [kind |-> "list", len |-> 0] ELSE r

\* The elements a parsed response of a kind may hold: full candidate records,
\* a record without "reason", a record without "file", a string.
ElementsOf(kind) ==
  IF kind = "object"
  THEN {[cand |-> NoCandidate, shape |-> "string"]}
  ELSE [cand : Candidates, shape : {"full"}]
         \cup {[cand |-> c, shape |-> "no_reason"] : c \in {d \in Candidates : ~d.file.abs /\ Len(d.file.parts) = 1}}
         \cup {[cand |-> NoCandidate, shape |-> "no_file"],
               [cand |-> NoCandidate, shape |-> "string"]}

\* pathlib:  repo_dir / relpath  is relpath itself when relpath is absolute.
JoinPath(dir, file) == IF file.abs THEN file.parts ELSE dir \o file.parts

\* The file the operating system opens for a path: ".." steps to the parent.
RECURSIVE Resolve(_, _)
Resolve(done, rest) ==
  IF rest = <<>> THEN done
  ELSE IF Head(rest) = ".."
       THEN Resolve(IF done = <<>> THEN done ELSE SubSeq(done, 1, Len(done) - 1), Tail(rest))
       ELSE Resolve(Append(done, Head(rest)), Tail(rest))

IsUnder(dir, p) == Len(p) > Len(dir) /\ SubSeq(p, 1, Len(dir)) = dir

\* The files of a fresh clone of the default branch, below the clone's root.
BaselineTree(root) ==
  [p \in {root \o <<"a.py">>, root \o <<".git">>} |-> IF p = root \o <<".git">> THEN "git" ELSE "base"]

\* The part of the file system below a directory.
TreeAt(files, dir) == [p \in {q \in DOMAIN files : IsUnder(dir, q)} |-> files[p]]

\* shutil.rmtree(dir, ignore_errors=True)
RmTree(files, dir) == [p \in {q \in DOMAIN files : ~IsUnder(dir, q)} |-> files[p]]

\* git clone into dir: the baseline files appear below root.
CloneInto(files, root) ==
  [p \in DOMAIN files \cup DOMAIN BaselineTree(root) |->
     IF p \in DOMAIN BaselineTree(root) THEN BaselineTree(root)[p] ELSE files[p]]

\* git diff in root: the tracked files whose content is not the committed one;
\* nothing on stdout where there is no repository
GitDiff(files, root) ==
  IF root \o <<".git">> \notin DOMAIN files THEN {}
  ELSE {p \in DOMAIN BaselineTree(root) \ {root \o <<".git">>} :
          p \notin DOMAIN files \/ files[p] # BaselineTree(root)[p]}

\* target.write_text(content)
WriteFile(files, p, content) ==
  [q \in DOMAIN files \cup {p} |-> IF q = p THEN content ELSE files[q]]

\* ------------------------------------------------------------------- scores
Abs(n) == IF n < 0 THEN -n ELSE n

RECURSIVE Gcd(_, _)
Gcd(a, b) == IF b = 0 THEN a ELSE Gcd(b, a % b)

\* A percentage is kept exactly, as a fraction num/den in lowest terms, den > 0.
\* Python computes it in binary floating point; for integer scores between
\* -LintSentinel and 100 the float comparison with the margins 5.0, 100.0 and
\* 150.0 gives the same answer as the exact one.
Rat(n, d) == LET g == Gcd(Abs(n), d) IN [num |-> n \div g, den |-> d \div g]

\* r >= m for a fraction r and an integer m (Python: delta >= IMPROVEMENT_MARGIN)
RatGeq(r, m) == r.num >= m * r.den

\* r <= s for two fractions, compared over their common denominator
RatLeq(r, s) ==
  LET l == (r.den \div Gcd(r.den, s.den)) * s.den
  IN  r.num * (l \div r.den) <= s.num * (l \div s.den)

\* agent_core.compute_score
compute_score_floor(tests_ok, lint_count) ==
  LET s == (IF tests_ok THEN 100 ELSE 0) - lint_count IN IF s < 0 THEN 0 ELSE s

compute_score(tests_ok, lint_count) == (IF tests_ok THEN 100 ELSE 0) - lint_count

\* agent_core.process_repo, lines 88-92: the delta computed inline
InlineDelta_signed(score_b, score_a) ==
  IF score_b # 0 THEN
    IF score_b > 0 THEN Rat((score_a - score_b) * 100, score_b)
    ELSE Rat((score_b - score_a) * 100, -score_b)
  ELSE IF score_a > 0 THEN Rat(100, 1)
  ELSE Rat(0, 1)

InlineDelta_nozero(score_b, score_a) ==
  IF score_b # 0 THEN Rat((score_a - score_b) * 100, Abs(score_b))
  ELSE Rat(0, 1)

InlineDelta(score_b, score_a) ==
  IF score_b # 0 THEN Rat((score_a - score_b) * 100, Abs(score_b))
  ELSE IF score_a > 0 THEN Rat(100, 1)
  ELSE Rat(0, 1)

\* kai_decision_engine.quality_score and its inner tests_score (scaled by 100)
tests_score(ok) == IF ok THEN 100 ELSE 0

\* kai_decision_engine.quality_score, lines 142-143: tests_score(ok)*100 - lint
engine_score(ok, lint) == tests_score(ok) - lint

quality_score(tests_ok_before, lint_before, tests_ok_after, lint_after) ==
  LET before == engine_score(tests_ok_before, lint_before)
      after  == engine_score(tests_ok_after, lint_after)
  IN  IF before = 0 THEN
        IF after > 0 THEN Rat(100, 1) ELSE Rat(0, 1)
      ELSE Rat((after - before) * 100, Abs(before))

\* ------------------------------------------------------------------- state
VARIABLES
  pc,                 \* position in main / process_repo
  kill,               \* the kill-switch file exists
  token,              \* KAI_PAT or GITHUB_TOKEN is set
  allow,              \* number of entries of the allowlist
  IMPROVEMENT_MARGIN, \* the configured margin
  full,               \* index of the allowlist entry main is at
  files,              \* the file system: path -> content
  repo_dir_exists,    \* the directory repo_dir exists
  meas_b, score_b,    \* baseline measurement and score
  ncand,              \* len(candidates)
  idx,                \* position of the for loop in candidates (1-based)
  cand,               \* the loop variable
  meas_a, score_a,    \* measurement and score after apply
  delta,              \* the delta of the current candidate
  accepted,           \* process_repo's local flag
  pushes,             \* branches pushed for the current repository
  pulls,              \* pull requests created for the current repository
  naccepted,          \* history: candidates accepted for the current repository
  killIdx,            \* history: idx at which the in-loop check_kill fired in the
                      \* repository processed last, 0 if it did not
  resp,               \* what json.loads made of the planner's response
  shape,              \* the shape of the loop variable cand
  applied,            \* history: apply_candidate returned True for cand
  rejected_diff,      \* what the rejection just before wrote to
                      \* artifacts/<name>_rejected.diff: written, and the paths in it
  published,          \* history: the publish steps completed by the accept just
                      \* before, and the pull request they opened
  baselined,          \* history: baseline measurements and "before" snapshots
                      \* taken for the repository
  q,                  \* the last run of compute_quality on its own: tools and result
  \* kai_decision_engine
  epc,                \* position in kai_decision_engine.main / process_repo
  exit_status,        \* exit status of the engine's process, Running before it ends
  DIRECT_PUSH,        \* the environment variable DIRECT_PUSH
  repo_full,          \* index of the allowlist entry the engine's main is at
  qual_b, qual_a,     \* compute_quality before and after apply_mutations
  delta_percent,      \* quality_score of the two measurements
  dirty,              \* apply_mutations changed the working copy
  work_dir,           \* WORK_DIR: "absent", "empty" or "cloned"
  origin,             \* the remote repository: branch -> commit
  pull_requests,      \* pull requests opened on the repository
  decision_json,      \* artifacts/<name>_decision.json: the records it holds
  engine_rejected_diff, \* artifacts/<name>_rejected.diff was written
  decided,            \* history: the branch process_repo took, "none" before
  git,                \* history: what git and the API did in commit_and_branch_push
  \* the deterministic safe mutations
  wc,                 \* a working copy: its README.md and its .editorconfig
  mutated,            \* history: the mutation applied last and the state it found
  \* memory.py
  mem_file,           \* kai_memory.json
  stored,             \* history: the records of the add_memory calls that returned
  clock               \* time.time()

\* the state of kai_decision_engine
engine == <<epc, exit_status, DIRECT_PUSH, repo_full, qual_b, qual_a, delta_percent,
            dirty, work_dir, origin, pull_requests, decision_json,
            engine_rejected_diff, decided, git>>

\* everything that is not state of agent_core
\* the state of the safe mutations and of the memory store
mutations == <<wc, mutated>>

memory == <<mem_file, stored, clock>>

aux == <<q, engine, mutations, memory>>

vars == <<pc, kill, token, allow, IMPROVEMENT_MARGIN, full, files, repo_dir_exists,
          meas_b, score_b, ncand, idx, cand, meas_a, score_a, delta, accepted,
          pushes, pulls, naccepted, killIdx, resp, shape, applied,
          rejected_diff, published, baselined, aux>>

\* the locals of process_repo
locals == <<meas_b, score_b, ncand, idx, cand, meas_a, score_a, delta, accepted, pushes, pulls, naccepted,
            resp, shape, applied, rejected_diff, published, baselined>>

\* the state of agent_core
core == <<pc, kill, token, allow, IMPROVEMENT_MARGIN, full, files, repo_dir_exists,
          locals, killIdx>>

ZeroDelta == [num |-> 0, den |-> 1]

NoDiff == [written |-> FALSE, paths |-> {}]

NoPullRequest == [base |-> "", body |-> ""]

NothingPublished == [steps |-> << >>, pr |-> NoPullRequest]

NotBaselined == [measured |-> 0, snapshots |-> 0]

\* process_repo is entered with fresh locals
FreshLocals ==
  /\ meas_b = NoMeasurement /\ score_b = 0
  /\ ncand = 0 /\ idx = 0 /\ cand = NoCandidate
  /\ meas_a = NoMeasurement /\ score_a = 0 /\ delta = ZeroDelta
  /\ accepted = FALSE /\ pushes = 0 /\ pulls = 0 /\ naccepted = 0
  /\ resp = "none" /\ shape = "none" /\ applied = FALSE
  /\ rejected_diff = NoDiff /\ published = NothingPublished /\ baselined = NotBaselined

FreshLocals_next ==
  /\ meas_b' = NoMeasurement /\ score_b' = 0
  /\ ncand' = 0 /\ idx' = 0 /\ cand' = NoCandidate
  /\ meas_a' = NoMeasurement /\ score_a' = 0 /\ delta' = ZeroDelta
  /\ accepted' = FALSE /\ pushes' = 0 /\ pulls' = 0 /\ naccepted' = 0
  /\ resp' = "none" /\ shape' = "none" /\ applied' = FALSE
  /\ rejected_diff' = NoDiff /\ published' = NothingPublished /\ baselined' = NotBaselined

\* A working copy as the safe mutations see it.  README.md is absent, holds
\* text, or cannot be decoded; its text is a sequence of pieces: plain text,
\* text that mentions "Maintained by Kai", the badge, the heading "# Repo".
\* .editorconfig is absent, the one the mutation writes, or another one.
MaxReadme == 2

ReadmePieces == {"text", "kai_text", "badge"}

ReadmeTexts == UNION {[1..n -> ReadmePieces] : n \in 0..MaxReadme}

WorkingCopies ==
  [readme : [kind : {"text"}, text : ReadmeTexts]
              \cup [kind : {"absent", "undecodable"}, text : {<< >>}],
   editorconfig : {"absent", "kai", "other"}]

NoMutation == [name |-> "none", before |-> [readme |-> [kind |-> "absent", text |-> << >>],
                                            editorconfig |-> "absent"]]

\* no mutation has been applied
MutationsIdle == wc = NoMutation.before /\ mutated = NoMutation

\* kai_memory.json: absent, a JSON list of records, or text that is no JSON
\* (what an interrupted _save leaves)
NoMemFile == [kind |-> "absent", records |-> << >>]

MemoryIdle == mem_file = NoMemFile /\ stored = << >> /\ clock = 0

\* kai_decision_engine: the process has not ended
Running == -1

\* repo.default_branch or "master", and "kai/decision-" + str(int(time.time()))
default_branch == "default"

decision_branch == "kai/decision-1"

Branches == {default_branch, decision_branch}

\* The remote repository as cloned: the default branch only, at its head.
FreshOrigin == [b \in Branches |-> IF b = default_branch THEN "base" ELSE "absent"]

\* Values of the environment variable DIRECT_PUSH (unset reads as "false").
DirectPushValues == {"false", "true", "True"}

\* str.lower on those values
Lower(v) == IF v = "True" THEN "true" ELSE v

NoGit == [commit |-> FALSE, checkout |-> FALSE, net |-> FALSE, api |-> FALSE]

\* process_repo is entered: nothing measured, decided or written yet
EngineFreshRepo ==
  /\ qual_b' = NoMeasurement /\ qual_a' = NoMeasurement /\ delta_percent' = ZeroDelta
  /\ dirty' = FALSE /\ origin' = FreshOrigin /\ pull_requests' = 0
  /\ decision_json' = {} /\ engine_rejected_diff' = FALSE /\ decided' = "none"
  /\ git' = NoGit

\* kai_decision_engine has not been started
EngineStart ==
  /\ epc = "main" /\ exit_status = Running /\ repo_full = 0
  /\ qual_b = NoMeasurement /\ qual_a = NoMeasurement /\ delta_percent = ZeroDelta
  /\ dirty = FALSE /\ work_dir = "absent" /\ origin = FreshOrigin /\ pull_requests = 0
  /\ decision_json = {} /\ engine_rejected_diff = FALSE /\ decided = "none"
  /\ git = NoGit

\* The allowlist is empty or has MaxRepos entries: main treats a shorter one
\* the same way, entry by entry, and leaves the loop earlier.
Init ==
  /\ pc = "main"
  /\ kill \in BOOLEAN
  /\ token \in BOOLEAN
  /\ allow \in {0, MaxRepos}
  /\ IMPROVEMENT_MARGIN \in Margins
  /\ full = 0
  /\ files = << >>
  /\ repo_dir_exists = FALSE
  /\ FreshLocals
  /\ killIdx = 0
  /\ q = NoRun
  /\ DIRECT_PUSH = "false"
  /\ EngineStart
  /\ MutationsIdle
  /\ MemoryIdle

\* agent_core.check_kill
check_kill == kill

\* agent_core.safe_write_file: the path is joined and written, nothing else
safe_write_file(fs, repo_dir, relpath, content) ==
  WriteFile(fs, Resolve(<<>>, JoinPath(repo_dir, relpath)), content)

\* agent_core.apply_candidate: candidate["file"] and candidate["new_content"]
\* raise for an element that is no record or lacks the key; every exception is
\* caught and False returned.  w is what the file system does with the write.
apply_candidate(fs, repo_dir, candidate, sh, w) ==
  IF sh \in {"string", "no_file"}
  THEN [ok |-> FALSE, mkdir |-> FALSE, fs |-> fs]
  ELSE IF w = "written"
  THEN [ok |-> TRUE, mkdir |-> TRUE,
        fs |-> safe_write_file(fs, repo_dir, candidate.file, candidate.new_content)]
  ELSE [ok |-> FALSE, mkdir |-> (w = "write_failed"), fs |-> fs]

\* agent_core.process_repo line 94: delta >= IMPROVEMENT_MARGIN
meets_margin(d, margin) == RatGeq(d, margin)

ReturnToMain_stay ==
  /\ pc' = "main_loop"
  /\ full' = full
  /\ FreshLocals_next

\* process_repo returns to the for loop of main (line 142), its locals die
ReturnToMain ==
  /\ pc' = "main_loop"
  /\ full' = full + 1
  /\ FreshLocals_next

\* ----------------------------------------------------------------- actions
\* The operator creates or removes the kill-switch file, at any moment.
EnvKill ==
  /\ pc # "done"
  /\ kill' = ~kill
  /\ UNCHANGED <<pc, token, allow, IMPROVEMENT_MARGIN, full, files, repo_dir_exists,
                 locals, killIdx, aux>>

\* main, lines 130-141
Main_nokill ==
  /\ pc = "main"
  /\ IF ~token THEN pc' = "done" /\ full' = full
     ELSE IF allow = 0 THEN pc' = "done" /\ full' = full
     ELSE pc' = "main_loop" /\ full' = 1
  /\ UNCHANGED <<kill, token, allow, IMPROVEMENT_MARGIN, files, repo_dir_exists,
                 locals, killIdx, aux>>

Main ==
  /\ pc = "main"
  /\ IF check_kill THEN pc' = "done" /\ full' = full
     ELSE IF ~token THEN pc' = "done" /\ full' = full
     ELSE IF allow = 0 THEN pc' = "done" /\ full' = full
     ELSE pc' = "main_loop" /\ full' = 1
  /\ UNCHANGED <<kill, token, allow, IMPROVEMENT_MARGIN, files, repo_dir_exists,
                 locals, killIdx, aux>>

\* main, lines 142-145: for full in allow: if check_kill(): break
MainLoop ==
  /\ pc = "main_loop"
  /\ IF full > allow THEN pc' = "done"
     ELSE IF check_kill THEN pc' = "done"
     ELSE pc' = "process_repo"
  /\ UNCHANGED <<kill, token, allow, IMPROVEMENT_MARGIN, full, files, repo_dir_exists,
                 locals, killIdx, aux>>

\* process_repo, lines 57-71: get_repo, prepare the work directory, clone
Clone_raise ==
  /\ pc = "process_repo"
  /\ \E outcome \in {"get_repo_raised", "clone_failed", "cloned"} :
       CASE outcome = "get_repo_raised" ->
              /\ ReturnToMain
              /\ UNCHANGED <<files, repo_dir_exists>>
         [] outcome = "clone_failed" ->
              /\ files' = RmTree(files, WorkDir)
              /\ repo_dir_exists' = FALSE
              /\ pc' = "done"
              /\ UNCHANGED <<full, locals>>
         [] outcome = "cloned" ->
              /\ files' = CloneInto(RmTree(files, WorkDir), RepoDir(full))
              /\ repo_dir_exists' = TRUE
              /\ pc' = "baseline"
              /\ UNCHANGED <<full, locals>>
  /\ killIdx' = 0
  /\ UNCHANGED <<kill, token, allow, IMPROVEMENT_MARGIN, aux>>

Clone ==
  /\ pc = "process_repo"
  /\ \E outcome \in {"get_repo_raised", "clone_failed", "cloned"} :
       CASE outcome = "get_repo_raised" ->
              /\ ReturnToMain
              /\ UNCHANGED <<files, repo_dir_exists>>
         [] outcome = "clone_failed" ->
              /\ files' = RmTree(files, WorkDir)
              /\ repo_dir_exists' = FALSE
              /\ ReturnToMain
         [] outcome = "cloned" ->
              /\ files' = CloneInto(RmTree(files, WorkDir), RepoDir(full))
              /\ repo_dir_exists' = TRUE
              /\ pc' = "baseline"
              /\ UNCHANGED <<full, locals>>
  /\ killIdx' = 0
  /\ UNCHANGED <<kill, token, allow, IMPROVEMENT_MARGIN, aux>>

\* process_repo, lines 73-82: baseline, "before" snapshot, candidates.
\* len(candidates) at line 81 raises for a response that is a JSON scalar.
Baseline ==
  /\ pc = "baseline"
  /\ \E m \in Measurements, snapshot_ok \in BOOLEAN, r \in Responses :
       LET candidates == propose_candidates(r) IN
       IF snapshot_ok /\ candidates.kind # "scalar"
       THEN /\ meas_b' = m
            /\ score_b' = compute_score(m.tests, m.lint)
            /\ resp' = candidates.kind
            /\ ncand' = candidates.len
            /\ idx' = 1
            /\ accepted' = FALSE
            /\ baselined' = [measured |-> baselined.measured + 1,
                              snapshots |-> baselined.snapshots + 1]
            /\ pc' = "cand_loop"
            /\ UNCHANGED <<full, cand, meas_a, score_a, delta, pushes, pulls, naccepted,
                           shape, applied, rejected_diff, published>>
       ELSE ReturnToMain
  /\ UNCHANGED <<kill, token, allow, IMPROVEMENT_MARGIN, files, repo_dir_exists, killIdx,
                 aux>>

\* process_repo, lines 83-84: for cand in candidates: if check_kill(): return.
\* What the step before wrote or published has been looked at by now.
CandLoop_nocheck ==
  /\ pc = "cand_loop"
  /\ IF idx > ncand
     THEN /\ pc' = "snapshot_after"
          /\ rejected_diff' = NoDiff /\ published' = NothingPublished
          /\ UNCHANGED <<full, meas_b, score_b, ncand, idx, cand, meas_a, score_a, delta,
                         accepted, pushes, pulls, naccepted, killIdx, resp, shape, applied,
                         baselined>>
     ELSE /\ \E e \in ElementsOf(resp) : cand' = e.cand /\ shape' = e.shape
          /\ pc' = "apply"
          /\ rejected_diff' = NoDiff /\ published' = NothingPublished
          /\ UNCHANGED <<full, meas_b, score_b, ncand, idx, meas_a, score_a, delta,
                         accepted, pushes, pulls, naccepted, killIdx, resp, applied,
                         baselined>>
  /\ UNCHANGED <<kill, token, allow, IMPROVEMENT_MARGIN, files, repo_dir_exists, aux>>

CandLoop ==
  /\ pc = "cand_loop"
  /\ IF idx > ncand
     THEN /\ pc' = "snapshot_after"
          /\ rejected_diff' = NoDiff /\ published' = NothingPublished
          /\ UNCHANGED <<full, meas_b, score_b, ncand, idx, cand, meas_a, score_a, delta,
                         accepted, pushes, pulls, naccepted, killIdx, resp, shape, applied,
                         baselined>>
     ELSE IF check_kill
     THEN /\ killIdx' = idx
          /\ ReturnToMain
     ELSE /\ \E e \in ElementsOf(resp) : cand' = e.cand /\ shape' = e.shape
          /\ pc' = "apply"
          /\ rejected_diff' = NoDiff /\ published' = NothingPublished
          /\ UNCHANGED <<full, meas_b, score_b, ncand, idx, meas_a, score_a, delta,
                         accepted, pushes, pulls, naccepted, killIdx, resp, applied,
                         baselined>>
  /\ UNCHANGED <<kill, token, allow, IMPROVEMENT_MARGIN, files, repo_dir_exists, aux>>

\* process_repo, lines 85-94: apply_candidate (its result is not looked at),
\* compute_quality, score, delta, gate
Apply_nogate ==
  /\ pc = "apply"
  /\ \E w \in {"written", "write_failed", "mkdir_failed"}, m \in Measurements :
       LET a == apply_candidate(files, RepoDir(full), cand, shape, w) IN
       /\ files' = a.fs
       /\ applied' = a.ok
       /\ repo_dir_exists' = IF a.mkdir /\ ~cand.file.abs THEN TRUE ELSE repo_dir_exists
       /\ meas_a' = m
       /\ score_a' = compute_score(m.tests, m.lint)
       /\ delta' = InlineDelta(score_b, score_a')
       /\ pc' = "publish"
  /\ UNCHANGED <<kill, token, allow, IMPROVEMENT_MARGIN, full, meas_b, score_b, ncand,
                 idx, cand, accepted, pushes, pulls, naccepted, killIdx, resp, shape,
                 rejected_diff, published, baselined, aux>>

Apply ==
  /\ pc = "apply"
  /\ \E w \in {"written", "write_failed", "mkdir_failed"}, m \in Measurements :
       LET a == apply_candidate(files, RepoDir(full), cand, shape, w) IN
       /\ files' = a.fs
       /\ applied' = a.ok
       /\ repo_dir_exists' = IF a.mkdir /\ ~cand.file.abs THEN TRUE ELSE repo_dir_exists
       /\ meas_a' = m
       /\ score_a' = compute_score(m.tests, m.lint)
       /\ delta' = InlineDelta(score_b, score_a')
       /\ pc' = IF meets_margin(delta', IMPROVEMENT_MARGIN) THEN "publish" ELSE "reject"
  /\ UNCHANGED <<kill, token, allow, IMPROVEMENT_MARGIN, full, meas_b, score_b, ncand,
                 idx, cand, accepted, pushes, pulls, naccepted, killIdx, resp, shape,
                 rejected_diff, published, baselined, aux>>

\* the for loop goes on with the next candidate; cand, the measurement and the
\* delta are assigned again before they are read
NextCandidate ==
  /\ pc' = "cand_loop"
  /\ idx' = idx + 1
  /\ cand' = NoCandidate /\ shape' = "none" /\ applied' = FALSE
  /\ meas_a' = NoMeasurement /\ score_a' = 0 /\ delta' = ZeroDelta

\* The ways lines 97-108 can end.  cand.get at line 105 raises for a cand that
\* is not a record, after the branch was pushed.
PublishOutcomes(sh) ==
  IF sh = "string"
  THEN {"raised_before_push", "create_pull_raised"}
  ELSE {"raised_before_push", "create_pull_raised", "add_memory_raised", "published"}

\* Lines 98-108 in the order of the code: git add and commit, git checkout -b,
\* git push, repo.create_pull, add_memory, accepted = True
PublishSteps == <<"commit", "branch", "push", "pull_request", "memory", "accepted">>

\* The steps completed when the try block ends in a way: all of them, or
\* those before the statement that raised.  subprocess.run raises when git
\* cannot be started in repo_dir, and then the first of them does.
StepsDone_memfirst(outcome) ==
  CASE outcome = "raised_before_push" -> {<< >>}
    [] outcome = "create_pull_raised" -> {<<"commit", "branch", "push", "memory">>}
    [] outcome = "add_memory_raised" -> {<<"commit", "branch", "push">>}
    [] outcome = "published" -> {<<"commit", "branch", "push", "memory", "pull_request", "accepted">>}

StepsDone(outcome) ==
  CASE outcome = "raised_before_push" -> {<< >>}
    [] outcome = "create_pull_raised" -> {SubSeq(PublishSteps, 1, 3)}
    [] outcome = "add_memory_raised" -> {SubSeq(PublishSteps, 1, 4)}
    [] outcome = "published" -> {PublishSteps}

\* Line 105: create_pull(body=cand.get("reason", "Automated improvement by
\* KaiAgent"), head=branch, base=default_branch)
PullRequest(candidate, sh) ==
  [base |-> default_branch,
   body |-> IF sh = "full" THEN candidate.reason ELSE "Automated improvement by KaiAgent"]

\* process_repo, lines 95-111: commit, branch, push, pull request, memory
Publish_nobreak ==
  /\ pc = "publish"
  /\ pushes' = pushes + 1
  /\ pulls' = pulls + 1
  /\ accepted' = TRUE
  /\ naccepted' = naccepted + 1
  /\ published' = [steps |-> PublishSteps, pr |-> PullRequest(cand, shape)]
  /\ NextCandidate
  /\ UNCHANGED <<kill, token, allow, IMPROVEMENT_MARGIN, full, files, repo_dir_exists,
                 meas_b, score_b, ncand, killIdx, resp, rejected_diff, baselined, aux>>

Publish ==
  /\ pc = "publish"
  /\ \E outcome \in PublishOutcomes(shape) :
       /\ pushes' = IF outcome = "raised_before_push" THEN pushes ELSE pushes + 1
       /\ pulls' = IF outcome \in {"add_memory_raised", "published"} THEN pulls + 1 ELSE pulls
       /\ \E done \in StepsDone(outcome) :
            published' = [steps |-> done,
                          pr |-> IF outcome \in {"add_memory_raised", "published"}
                                 THEN PullRequest(cand, shape) ELSE NoPullRequest]
       /\ IF outcome = "published"
          THEN /\ accepted' = TRUE
               /\ naccepted' = naccepted + 1
               /\ pc' = "snapshot_after"
               /\ UNCHANGED <<idx, cand, meas_a, score_a, delta, shape, applied>>
          ELSE /\ NextCandidate
               /\ UNCHANGED <<accepted, naccepted>>
  /\ UNCHANGED <<kill, token, allow, IMPROVEMENT_MARGIN, full, files, repo_dir_exists,
                 meas_b, score_b, ncand, killIdx, resp, rejected_diff, baselined, aux>>

\* process_repo, lines 112-121: save the diff, delete repo_dir, clone again.
\* git diff raises where repo_dir does not exist; whatever the try block at
\* lines 114-116 raises is dropped.
Reject_nodiffcatch ==
  /\ pc = "reject"
  /\ \E outcome \in {"cloned", "clone_failed"}, diff \in {"written", "failed"} :
       IF diff = "written" /\ repo_dir_exists
       THEN /\ rejected_diff' = [written |-> TRUE, paths |-> GitDiff(files, RepoDir(full))]
            /\ files' = IF outcome = "cloned"
                        THEN CloneInto(RmTree(files, RepoDir(full)), RepoDir(full))
                        ELSE RmTree(files, RepoDir(full))
            /\ repo_dir_exists' = (outcome = "cloned")
            /\ NextCandidate
            /\ UNCHANGED <<full, meas_b, score_b, ncand, accepted, pushes, pulls, naccepted,
                           resp, published, baselined>>
       ELSE /\ ReturnToMain
            /\ UNCHANGED <<files, repo_dir_exists>>
  /\ UNCHANGED <<kill, token, allow, IMPROVEMENT_MARGIN, killIdx, aux>>

Reject_remeasure ==
  /\ pc = "reject"
  /\ \E outcome \in {"cloned", "clone_failed"}, diff \in {"written", "failed"},
        m \in Measurements :
       /\ rejected_diff' = IF diff = "written" /\ repo_dir_exists
                           THEN [written |-> TRUE, paths |-> GitDiff(files, RepoDir(full))]
                           ELSE rejected_diff
       /\ files' = IF outcome = "cloned"
                   THEN CloneInto(RmTree(files, RepoDir(full)), RepoDir(full))
                   ELSE RmTree(files, RepoDir(full))
       /\ repo_dir_exists' = (outcome = "cloned")
       /\ meas_b' = m
       /\ score_b' = compute_score(m.tests, m.lint)
       /\ baselined' = [baselined EXCEPT !.measured = @ + 1]
  /\ NextCandidate
  /\ UNCHANGED <<kill, token, allow, IMPROVEMENT_MARGIN, full, ncand,
                 accepted, pushes, pulls, naccepted, killIdx, resp, published, aux>>

Reject ==
  /\ pc = "reject"
  /\ \E outcome \in {"cloned", "clone_failed"}, diff \in {"written", "failed"} :
       /\ rejected_diff' = IF diff = "written" /\ repo_dir_exists
                           THEN [written |-> TRUE, paths |-> GitDiff(files, RepoDir(full))]
                           ELSE rejected_diff
       /\ files' = IF outcome = "cloned"
                   THEN CloneInto(RmTree(files, RepoDir(full)), RepoDir(full))
                   ELSE RmTree(files, RepoDir(full))
       /\ repo_dir_exists' = (outcome = "cloned")
  /\ NextCandidate
  /\ UNCHANGED <<kill, token, allow, IMPROVEMENT_MARGIN, full, meas_b, score_b, ncand,
                 accepted, pushes, pulls, naccepted, killIdx, resp, published, baselined,
                 aux>>

\* process_repo, lines 122-127: "after" snapshot, delete the work directory.
\* shutil.make_archive of a repo_dir that no longer exists raises or writes an
\* empty archive, depending on the Python version; any snapshot may raise.
SnapshotAfter ==
  /\ pc = "snapshot_after"
  /\ \E snapshot_ok \in BOOLEAN :
       /\ IF snapshot_ok
          THEN /\ files' = RmTree(files, WorkDir)
               /\ repo_dir_exists' = FALSE
          ELSE UNCHANGED <<files, repo_dir_exists>>
  /\ ReturnToMain
  /\ UNCHANGED <<kill, token, allow, IMPROVEMENT_MARGIN, killIdx, aux>>

Next ==
  \/ EnvKill
  \/ Main
  \/ MainLoop
  \/ Clone
  \/ Baseline
  \/ CandLoop
  \/ Apply
  \/ Publish
  \/ Reject
  \/ SnapshotAfter

Spec == Init /\ [][Next]_vars

\* --------------------------------------- a run that nobody interrupts
\* main with the credential in the environment and no kill-switch file, at
\* the start and throughout: the operator never creates it.  The margin is
\* the one of the default configuration; both sides of the gate are taken.
InitLive ==
  /\ pc = "main"
  /\ kill = FALSE
  /\ token = TRUE
  /\ allow \in {0, MaxRepos}
  /\ IMPROVEMENT_MARGIN = DefaultMargin
  /\ full = 0
  /\ files = << >>
  /\ repo_dir_exists = FALSE
  /\ FreshLocals
  /\ killIdx = 0
  /\ q = NoRun
  /\ DIRECT_PUSH = "false"
  /\ EngineStart
  /\ MutationsIdle
  /\ MemoryIdle

NextLive ==
  \/ Main
  \/ MainLoop
  \/ Clone
  \/ Baseline
  \/ CandLoop
  \/ Apply
  \/ Publish
  \/ Reject
  \/ SnapshotAfter

\* main is one thread and every call it makes is synchronous: the statement
\* it is at is executed once the call before it has returned or raised.
SpecLive == InitLive /\ [][NextLive]_vars /\ WF_vars(NextLive)

\* --------------------------------------------- compute_quality on its own
\* One run of evaluator.compute_quality against some behaviour of the tools.
RunEvaluator ==
  /\ pc = "main"
  /\ \E t \in ToolRuns :
       q' = [impl |-> "evaluator", tools |-> t, result |-> evaluator_compute_quality(t)]
  /\ UNCHANGED <<pc, kill, token, allow, IMPROVEMENT_MARGIN, full, files, repo_dir_exists,
                 locals, killIdx, engine, mutations, memory>>

\* One run of kai_decision_engine.compute_quality.
RunEngine ==
  /\ pc = "main"
  /\ \E t \in ToolRuns :
       q' = [impl |-> "engine", tools |-> t, result |-> engine_compute_quality(t)]
  /\ UNCHANGED <<pc, kill, token, allow, IMPROVEMENT_MARGIN, full, files, repo_dir_exists,
                 locals, killIdx, engine, mutations, memory>>

NextQuality == RunEvaluator \/ RunEngine

SpecQuality == Init /\ [][NextQuality]_vars

\* ------------------------------------------------------ kai_decision_engine
\* kai_decision_engine.py:23  IMPROVEMENT_MARGIN = 5.0
ENGINE_IMPROVEMENT_MARGIN == 5

\* (tests_ok, lint_count) pairs kai_decision_engine.compute_quality may return.
EngineMeasurements ==
  {[tests |-> engine_compute_quality(t).tests, lint |-> engine_compute_quality(t).lint] :
     t \in ToolRuns}

\* git push origin <name>: the refspec names a local branch; without such a
\* branch, or without the network, git exits non-zero and the remote stays as
\* it is.
GitPush(local, remote, name, net) ==
  IF net /\ local[name] # "absent" THEN [remote EXCEPT ![name] = local[name]] ELSE remote

\* commit_and_branch_push line 116:  branch_name if branch_name else default
PushTarget(branch_name, default) == IF branch_name # "" THEN branch_name ELSE default

\* What git and the GitHub API do during commit_and_branch_push:
\*   commit    git commit makes a commit (it needs a changed working copy)
\*   checkout  git checkout -b succeeds (run with check=True, raises otherwise)
\*   net       the push reaches the remote
\*   api       create_pull is served (it is refused anyway for a head branch
\*             that is missing or has no commit the base lacks)
GitOutcomes == [commit : BOOLEAN, checkout : BOOLEAN, net : BOOLEAN, api : BOOLEAN]

\* kai_decision_engine.commit_and_branch_push: the remote afterwards and the
\* value returned (a pull request number or None)
commit_and_branch_push(org, changed, branch_name, direct_push, out) ==
  LET head  == IF changed /\ out.commit THEN "kai" ELSE "base"
      local == [b \in Branches |-> IF b = default_branch THEN head ELSE "absent"]
  IN  IF direct_push
      THEN [origin |-> GitPush(local, org, PushTarget(branch_name, default_branch), out.net),
            pr |-> "None"]
      ELSE IF ~out.checkout
      THEN [origin |-> org, pr |-> "None"]
      ELSE LET local2 == [local EXCEPT ![branch_name] = head]
               org2   == GitPush(local2, org, branch_name, out.net)
           IN  IF out.api /\ org2[branch_name] \notin {"absent", org2[default_branch]}
               THEN [origin |-> org2, pr |-> "1"]
               ELSE [origin |-> org2, pr |-> "None"]

\* process_repo line 189
direct_push == Lower(DIRECT_PUSH) = "true"

\* process_repo returns to the for loop of main
EngineReturn ==
  /\ epc' = "loop"
  /\ repo_full' = repo_full + 1

\* main, lines 213-222
EngineMain ==
  /\ epc = "main"
  /\ IF ~token THEN epc' = "exited" /\ exit_status' = 1 /\ repo_full' = repo_full
     ELSE IF allow = 0 THEN epc' = "exited" /\ exit_status' = 0 /\ repo_full' = repo_full
     ELSE epc' = "loop" /\ exit_status' = exit_status /\ repo_full' = 1
  /\ UNCHANGED <<DIRECT_PUSH, qual_b, qual_a, delta_percent, dirty, work_dir, origin,
                 pull_requests, decision_json, engine_rejected_diff, decided, git>>
  /\ UNCHANGED <<core, q, mutations, memory>>

\* main, lines 223-225: for repo_full in allow: process_repo(...)
EngineMainLoop ==
  /\ epc = "loop"
  /\ IF repo_full > allow
     THEN /\ epc' = "exited" /\ exit_status' = 0
          /\ UNCHANGED <<qual_b, qual_a, delta_percent, dirty, origin, pull_requests,
                         decision_json, engine_rejected_diff, decided, git>>
     ELSE /\ epc' = "process_repo" /\ exit_status' = exit_status
          /\ EngineFreshRepo
  /\ UNCHANGED <<DIRECT_PUSH, repo_full, work_dir>>
  /\ UNCHANGED <<core, q, mutations, memory>>

\* process_repo, lines 156-170: get_repo, prepare WORK_DIR, clone
EngineClone ==
  /\ epc = "process_repo"
  /\ \E outcome \in {"get_repo_raised", "clone_failed", "cloned"} :
       CASE outcome = "get_repo_raised" ->
              /\ EngineReturn
              /\ UNCHANGED work_dir
         [] outcome = "clone_failed" ->
              /\ work_dir' = "empty"
              /\ EngineReturn
         [] outcome = "cloned" ->
              /\ work_dir' = "cloned"
              /\ epc' = "measure"
              /\ UNCHANGED repo_full
  /\ UNCHANGED <<exit_status, DIRECT_PUSH, qual_b, qual_a, delta_percent, dirty, origin,
                 pull_requests, decision_json, engine_rejected_diff, decided, git>>
  /\ UNCHANGED <<core, q, mutations, memory>>

\* process_repo, lines 172-191: baseline, mutations, after, delta, decision.
\* compute_quality, snapshot_repo and apply_mutations catch what they raise.
EngineMeasure ==
  /\ epc = "measure"
  /\ \E b \in EngineMeasurements, a \in EngineMeasurements, changed \in BOOLEAN :
       /\ qual_b' = b
       /\ qual_a' = a
       /\ dirty' = changed
       /\ delta_percent' = quality_score(b.tests, b.lint, a.tests, a.lint)
       /\ epc' = IF meets_margin(delta_percent', ENGINE_IMPROVEMENT_MARGIN)
                 THEN "accept" ELSE "reject"
  /\ UNCHANGED <<exit_status, DIRECT_PUSH, repo_full, work_dir, origin, pull_requests,
                 decision_json, engine_rejected_diff, decided, git>>
  /\ UNCHANGED <<core, q, mutations, memory>>

\* process_repo, lines 192-198 and 208: publish, decision record, cleanup.
\* A decision record that cannot be written raises to the handler at line 209.
EngineAccept ==
  /\ epc = "accept"
  /\ \E out \in GitOutcomes, record \in {"written", "write_failed"} :
       LET r == commit_and_branch_push(origin, dirty, decision_branch, direct_push, out) IN
       /\ origin' = r.origin
       /\ git' = out
       /\ pull_requests' = IF r.pr = "None" THEN pull_requests ELSE pull_requests + 1
       /\ IF record = "written"
          THEN /\ decision_json' = {[repo |-> repo_full, delta |-> delta_percent,
                                     pr |-> r.pr, pushed |-> direct_push]}
               /\ work_dir' = "absent"
          ELSE UNCHANGED <<decision_json, work_dir>>
  /\ decided' = "accept"
  /\ EngineReturn
  /\ UNCHANGED <<exit_status, DIRECT_PUSH, qual_b, qual_a, delta_percent, dirty,
                 engine_rejected_diff>>
  /\ UNCHANGED <<core, q, mutations, memory>>

\* process_repo, lines 199-208: save the diff, cleanup
EngineReject ==
  /\ epc = "reject"
  /\ \E diff \in {"written", "failed"} :
       engine_rejected_diff' = (diff = "written")
  /\ work_dir' = "absent"
  /\ decided' = "reject"
  /\ EngineReturn
  /\ UNCHANGED <<exit_status, DIRECT_PUSH, qual_b, qual_a, delta_percent, dirty, origin,
                 pull_requests, decision_json, git>>
  /\ UNCHANGED <<core, q, mutations, memory>>

NextEngine ==
  \/ EngineMain
  \/ EngineMainLoop
  \/ EngineClone
  \/ EngineMeasure
  \/ EngineAccept
  \/ EngineReject

\* kai_decision_engine is started in some environment; agent_core is not running
InitEngine ==
  /\ pc = "main"
  /\ kill = FALSE
  /\ token \in BOOLEAN
  /\ allow \in 0..MaxRepos
  /\ IMPROVEMENT_MARGIN = DefaultMargin
  /\ full = 0
  /\ files = << >>
  /\ repo_dir_exists = FALSE
  /\ FreshLocals
  /\ killIdx = 0
  /\ q = NoRun
  /\ DIRECT_PUSH \in DirectPushValues
  /\ EngineStart
  /\ MutationsIdle
  /\ MemoryIdle

SpecEngine == InitEngine /\ [][NextEngine]_vars

\* ------------------------------------------------ deterministic safe mutations
\* "Maintained by Kai" in txt
HasMarker(text) == \E i \in 1..Len(text) : text[i] \in {"kai_text", "badge"}

\* kai_evolve.ensure_editorconfig
ensure_editorconfig(w) ==
  IF w.editorconfig = "absent" THEN [w EXCEPT !.editorconfig = "kai"] ELSE w

\* kai_evolve.ensure_badge; read_text of a README that cannot be decoded
\* raises and nothing is written
ensure_badge_always(w) ==
  IF w.readme.kind = "absent"
  THEN [w EXCEPT !.readme = [kind |-> "text", text |-> <<"heading", "badge">>]]
  ELSE IF w.readme.kind = "undecodable" THEN w
  ELSE [w EXCEPT !.readme.text = <<"badge">> \o w.readme.text]

ensure_badge(w) ==
  IF w.readme.kind = "absent"
  THEN [w EXCEPT !.readme = [kind |-> "text", text |-> <<"heading", "badge">>]]
  ELSE IF w.readme.kind = "undecodable" THEN w
  ELSE IF HasMarker(w.readme.text) THEN w
  ELSE [w EXCEPT !.readme.text = <<"badge">> \o w.readme.text]

\* kai_maintainer.apply_safe_mutations: .editorconfig first, then the badge
apply_safe_mutations(w) ==
  LET w1 == IF w.editorconfig = "absent" THEN [w EXCEPT !.editorconfig = "kai"] ELSE w
  IN  IF w1.readme.kind = "absent"
      THEN [w1 EXCEPT !.readme = [kind |-> "text", text |-> <<"heading", "badge">>]]
      ELSE IF w1.readme.kind = "undecodable" THEN w1
      ELSE IF HasMarker(w1.readme.text) THEN w1
      ELSE [w1 EXCEPT !.readme.text = <<"badge">> \o w1.readme.text]

MutationNames == {"ensure_editorconfig", "ensure_badge", "apply_safe_mutations"}

\* the mutation of a name, applied to a working copy
Mutate(name, w) ==
  CASE name = "ensure_editorconfig" -> ensure_editorconfig(w)
    [] name = "ensure_badge" -> ensure_badge(w)
    [] name = "apply_safe_mutations" -> apply_safe_mutations(w)

ApplyEnsureEditorconfig ==
  /\ wc' = ensure_editorconfig(wc)
  /\ mutated' = [name |-> "ensure_editorconfig", before |-> wc]
  /\ UNCHANGED <<core, q, engine, memory>>

ApplyEnsureBadge ==
  /\ wc' = ensure_badge(wc)
  /\ mutated' = [name |-> "ensure_badge", before |-> wc]
  /\ UNCHANGED <<core, q, engine, memory>>

ApplySafeMutations ==
  /\ wc' = apply_safe_mutations(wc)
  /\ mutated' = [name |-> "apply_safe_mutations", before |-> wc]
  /\ UNCHANGED <<core, q, engine, memory>>

NextMutations == ApplyEnsureEditorconfig \/ ApplyEnsureBadge \/ ApplySafeMutations

\* agent_core and kai_decision_engine are not running
CoreIdle ==
  /\ pc = "main" /\ kill = FALSE /\ token = TRUE /\ allow = 0
  /\ IMPROVEMENT_MARGIN = DefaultMargin /\ full = 0
  /\ files = << >> /\ repo_dir_exists = FALSE
  /\ FreshLocals /\ killIdx = 0 /\ q = NoRun
  /\ DIRECT_PUSH = "false" /\ EngineStart

\* a mutation meets a working copy in any of its states
InitMutations ==
  /\ CoreIdle
  /\ MemoryIdle
  /\ wc \in WorkingCopies
  /\ mutated = NoMutation

SpecMutations == InitMutations /\ [][NextMutations]_vars

\* ------------------------------------------------------------------- memory
\* Bound on the number of add_memory calls, and what they are called with.
MaxMemory == 3

MemTexts == {"accepted", "note"}

MemMetas == {"none", "repo"}

\* memory._load: the list in the file; [] when there is no file, and [] when
\* opening, reading or parsing it raises (the bare except at line 9)
_load(f, read) == IF f.kind = "list" /\ read = "read" THEN f.records ELSE << >>

\* memory._save: open(MEM_FILE, "w") empties the file, json.dump fills it; a
\* write that fails leaves text that is no JSON
_save(data, write) ==
  IF write = "written" THEN [kind |-> "list", records |-> data]
  ELSE [kind |-> "corrupt", records |-> << >>]

\* memory.add_memory
add_memory(f, text, meta, ts, read, write) ==
  _save(Append(_load(f, read), [text |-> text, meta |-> meta, ts |-> ts]), write)

\* One call of add_memory; it raises when the file cannot be written.
AddMemory ==
  /\ clock < MaxMemory
  /\ \E text \in MemTexts, meta \in MemMetas,
        read \in {"read", "read_failed"}, write \in {"written", "write_failed"} :
       /\ mem_file' = add_memory(mem_file, text, meta, clock + 1, read, write)
       /\ stored' = IF write = "written"
                    THEN Append(stored, [text |-> text, meta |-> meta, ts |-> clock + 1])
                    ELSE stored
  /\ clock' = clock + 1
  /\ UNCHANGED <<core, q, engine, mutations>>

NextMemory == AddMemory

\* the store starts without a file or with an empty list
InitMemory ==
  /\ CoreIdle
  /\ MutationsIdle
  /\ mem_file \in {NoMemFile, [kind |-> "list", records |-> << >>]}
  /\ stored = << >>
  /\ clock = 0

SpecMemory == InitMemory /\ [][NextMemory]_vars

\* ------------------------------------------------------------------ claims
\* The candidate that is being decided: applied, scored, delta computed.
Scored == pc \in {"publish", "reject"}

\* The working copy is exactly the freshly cloned baseline.
AtBaseline == TreeAt(files, RepoDir(full)) = BaselineTree(RepoDir(full))

\* C1: after a candidate was not accepted, the working copy the next candidate
\* is applied to is identical to the freshly cloned baseline.
NoCompounding == (pc = "apply" /\ idx > 1) => AtBaseline

\* C2: a candidate is accepted, and the loop stops, if and only if its delta
\* is >= IMPROVEMENT_MARGIN.
AcceptIffMargin ==
  [][(Scored /\ pc' \notin {"publish", "reject"})
       => (accepted' <=> meets_margin(delta, IMPROVEMENT_MARGIN))]_vars

\* C3: at most one candidate of a repository is accepted, and after the accept
\* no further candidate is applied or scored: the loop has been left.
AtMostOneAccept ==
  /\ naccepted <= 1
  /\ accepted <=> naccepted = 1
  /\ accepted => pc = "snapshot_after"

\* C3 witness: a candidate was accepted while candidates were left over.
AcceptedWithCandidatesLeft == accepted /\ idx < ncand

\* C4: with the kill-switch file present when the loop is about to start a
\* candidate, that candidate is not applied.
KillSwitchImmediacy ==
  [][(pc = "cand_loop" /\ idx <= ncand /\ kill) => pc' # "apply"]_vars

\* C4 witness: the in-loop check found the file before the second candidate,
\* after the first candidate had passed the check and was processed.
KillBetweenCandidates == killIdx = 2

\* C5: once the in-loop check found the kill switch, no later repository is
\* cloned or processed in this run.
KillAbortsRun == killIdx > 0 => pc \in {"main_loop", "done"}

\* C6: every file written lies below the working copy of some repository.
NoWriteOutside ==
  \A p \in DOMAIN files : \E r \in 1..MaxRepos : IsUnder(RepoDir(r), p)

\* C7: the inline delta is (after - before) / |before| * 100 for a non-zero
\* baseline, 100 for a zero baseline and a positive after-score, 0 for a zero
\* baseline otherwise, and quality_score gives the same value.
DeltaFormula ==
  Scored =>
    /\ delta.den > 0
    /\ score_b # 0 =>
         LET k == Abs(score_b) \div delta.den IN
           /\ delta.den * k = Abs(score_b)
           /\ delta.num * k = (score_a - score_b) * 100
    /\ (score_b = 0 /\ score_a > 0) => delta.num = 100 * delta.den
    /\ (score_b = 0 /\ score_a <= 0) => delta.num = 0
    /\ quality_score(meas_b.tests, meas_b.lint, meas_a.tests, meas_a.lint) = delta

\* C7 witness: a delta was computed against a negative baseline and met the margin.
NegativeBaselineImproved == pc = "publish" /\ score_b < 0

DeltaMonotone ==
  Scored =>
    \A m \in Measurements :
      LET other == compute_score(m.tests, m.lint) IN
        /\ other > score_a =>
             /\ RatLeq(delta, InlineDelta(score_b, other))
             /\ RatLeq(delta, quality_score(meas_b.tests, meas_b.lint, m.tests, m.lint))
        /\ other < score_a =>
             /\ RatLeq(InlineDelta(score_b, other), delta)
             /\ RatLeq(quality_score(meas_b.tests, meas_b.lint, m.tests, m.lint), delta)

\* C9 witness: a candidate was scored against a negative baseline, and another
\* against a zero baseline.
NegativeBaselineScored == Scored /\ score_b < 0 /\ score_a # score_b

\* C10 as stated: a candidate with a zero baseline and a positive after-score
\* is never on the reject path, whatever the configured margin.
ZeroBaselineNeverRejected == ~(pc = "reject" /\ score_b = 0 /\ score_a > 0)

\* C10 amended: with a zero baseline and a positive after-score the delta is
\* 100, and the candidate passes the gate exactly when the margin is <= 100.
ZeroBaselineGate ==
  (Scored /\ score_b = 0 /\ score_a > 0) =>
    /\ delta.num = 100 /\ delta.den = 1
    /\ pc = "publish" <=> IMPROVEMENT_MARGIN <= 100

\* C10 witness: zero baseline, positive after-score, default margin: gate passed.
ZeroBaselinePublish ==
  pc = "publish" /\ score_b = 0 /\ score_a > 0 /\ IMPROVEMENT_MARGIN = DefaultMargin


\* C11: a response that is not a JSON array gives no candidates, and no
\* candidate of it is applied, published or rejected with a diff.
NotAListMeansNoCandidates ==
  resp # "list" => (ncand = 0 /\ pc \notin {"apply", "publish", "reject"})

\* C12: every element that was written to the working copy is a record with
\* the fields file, new_content and reason.
AppliedOnlyFullRecords == (Scored /\ applied) => shape = "full"

\* C13: the number of candidates applied and scored for a repository never
\* exceeds MAX_ITERATIONS.
IterationBudget == Scored => idx <= MAX_ITER

\* C14: a candidate whose application failed is never accepted.
FailedApplyNeverAccepted == accepted => applied

\* The positions inside process_repo, and those after the clone succeeded.
InProcessRepo ==
  pc \in {"process_repo", "baseline", "cand_loop", "apply", "publish", "reject", "snapshot_after"}

AfterClone == InProcessRepo /\ pc # "process_repo"

\* C15: however process_repo ends, main is back in its loop at the next entry
\* of the allowlist, and from there the next repository is processed unless
\* the allowlist is exhausted or the kill switch is present.
RepoFailureIsLocal ==
  [][/\ (InProcessRepo /\ pc' # pc /\ pc' \in {"main", "main_loop", "done"})
          => (pc' = "main_loop" /\ full' = full + 1 /\ allow' = allow)
     /\ (pc = "main_loop" /\ pc' # pc /\ full <= allow /\ ~kill)
          => pc' = "process_repo"]_vars

\* C15 witness: the first repository ended by an exception, its working copy
\* was left behind, and the second repository is being processed.
SecondRepoAfterFailure ==
  /\ pc = "process_repo" /\ full = 2 /\ killIdx = 0
  /\ DOMAIN TreeAt(files, RepoDir(1)) # {}

\* C16: once the baseline is scored, processing of the repository ends only
\* through the "after" snapshot step.
AfterSnapshotAlways ==
  [][(pc \in {"cand_loop", "apply", "publish", "reject"}) => pc' # "main_loop"]_vars

\* C17: when process_repo returns after a successful clone, nothing is left
\* below the work directory.
WorkCopyDeletedOnReturn ==
  [][(AfterClone /\ pc' = "main_loop") => DOMAIN TreeAt(files', WorkDir) = {}]_vars


\* compute_quality has run on its own
QualityRan == q.impl # "none"

\* C18: compute_quality never raises: whatever the test runner and the lint
\* tool do, it returns a pair of a boolean and an issue count.
QualityNeverRaises ==
  QualityRan =>
    /\ ~q.result.raised
    /\ q.result.tests \in BOOLEAN
    /\ q.result.lint \in Nat

\* C18 witness: the test runner did not start and the lint output could not be
\* written, and compute_quality has returned.
QualityToolsFailed ==
  /\ QualityRan /\ q.tools.marker /\ q.tools.pytest = "not_started"
  /\ q.tools.flake8 = "reported" /\ q.tools.flake8_out = "write_failed"

\* C19: whenever the lint tool fails to run, compute_quality returns the
\* sentinel issue count, never 0.
LintFailureIsSentinel ==
  (QualityRan /\ q.tools.flake8 \in {"crashed", "not_started"})
    => q.result.lint = LintSentinel

\* C20: tests_passed is true without a test marker, and with a marker exactly
\* when the test runner's exit status is success.
TestsPassedIffExitSuccess ==
  QualityRan =>
    (q.result.tests <=> (~q.tools.marker \/ q.tools.pytest = "exit0"))

\* C21: when the credential is missing or the allowlist is empty, the decision
\* engine's process ends with exit status 0 and has processed no repository.
EarlyReturnExitZero ==
  (epc = "exited" /\ (~token \/ allow = 0))
    => (exit_status = 0 /\ repo_full = 0 /\ work_dir = "absent")

\* process_repo has returned after taking the accept or the reject branch
EngineDecided == epc = "loop" /\ decided # "none"

\* C22: for every repository that reached the accept/reject decision, exactly
\* one decision record, with the repository, the delta, the published reference
\* or null and the pushed flag, is in the audit archive, accepted or rejected.
DecisionRecordWritten ==
  EngineDecided =>
    /\ Cardinality(decision_json) = 1
    /\ \A d \in decision_json :
         /\ d.repo = repo_full - 1
         /\ d.delta = delta_percent
         /\ d.pr \in {"None", "1"}
         /\ d.pushed \in BOOLEAN

\* Something of the repository was published: a branch pushed or moved, or a
\* pull request opened.
EnginePublished == origin # FreshOrigin \/ pull_requests > 0

\* C23: the decision engine publishes only when the delta is >= 5.0; below the
\* margin nothing is pushed and the diff is in the rejected-diff artifact; in
\* both cases the work directory is gone when process_repo returns.
EngineGateAndCleanup ==
  EngineDecided =>
    /\ EnginePublished => meets_margin(delta_percent, ENGINE_IMPROVEMENT_MARGIN)
    /\ ~meets_margin(delta_percent, ENGINE_IMPROVEMENT_MARGIN)
         => (~EnginePublished /\ engine_rejected_diff)
    /\ work_dir = "absent"

\* C24: every safe mutation is idempotent: the working copy a mutation has
\* produced is the one it produces when it is applied once more.
MutationsIdempotent ==
  mutated.name # "none" =>
    /\ wc = Mutate(mutated.name, mutated.before)
    /\ Mutate(mutated.name, wc) = wc

\* C24 witness: ensure_badge has put the badge in front of a README that had
\* text and no badge.
BadgeAdded ==
  /\ mutated.name = "ensure_badge"
  /\ mutated.before.readme.kind = "text" /\ ~HasMarker(mutated.before.readme.text)
  /\ Len(mutated.before.readme.text) > 0
  /\ wc.readme.text = <<"badge">> \o mutated.before.readme.text

\* C25: the memory store is append-only: the file holds exactly the records of
\* the add_memory calls made so far, unchanged and in the order of the calls.
MemoryAppendOnly == mem_file.records = stored

\* C26: the kill switch is checked at startup and before each repository; a
\* run that finds the file at startup ends there, with nothing cloned, applied
\* or published, and a run that has ended does nothing more.
KillAtStartStopsRun ==
  [][/\ (pc = "main" /\ kill /\ pc' # pc)
          => (pc' = "done" /\ full' = 0 /\ files' = << >> /\ pushes' = 0 /\ pulls' = 0)
     /\ (pc = "main_loop" /\ full <= allow /\ kill /\ pc' # pc)
          => (pc' = "done" /\ files' = files)
     /\ pc = "done" => UNCHANGED <<pc, files, pushes, pulls>>]_vars

\* C26 witness: with a credential and a non-empty allowlist the run has ended
\* at the startup check, the kill-switch file being present.
KilledAtStartup == pc = "done" /\ full = 0 /\ kill /\ token /\ allow > 0

\* C27: a rejection writes the diff of the mutated working copy to the
\* rejected-diff artifact (or leaves the artifact alone when the diff cannot be
\* captured), then deletes the working copy, then attempts a fresh clone, and
\* only then goes on to the next candidate.
RejectOrder ==
  [][(pc = "reject" /\ pc' # pc) =>
       /\ rejected_diff' \in {rejected_diff,
                              [written |-> TRUE, paths |-> GitDiff(files, RepoDir(full))]}
       /\ \/ TreeAt(files', RepoDir(full)) = BaselineTree(RepoDir(full))
          \/ DOMAIN TreeAt(files', RepoDir(full)) = {}
       /\ pc' = "cand_loop" /\ idx' = idx + 1 /\ full' = full]_vars

\* C27 witness: the first candidate was rejected: its change is in the diff
\* artifact and the second candidate meets the freshly cloned baseline.
RejectedAndRecloned ==
  /\ pc = "cand_loop" /\ idx = 2
  /\ rejected_diff.written /\ rejected_diff.paths # {}
  /\ AtBaseline

\* C28: the publish steps run in the order commit, create branch, push branch,
\* open pull request, record to memory, count as accepted; the pull request has
\* the default branch as base and the candidate's reason as body; memory is
\* written and the candidate accepted only after the pull request exists.
PublishOrder ==
  [][(pc = "publish" /\ pc' # pc) =>
       LET done == published'.steps IN
       /\ \E k \in 0..6 :
            done = SubSeq(<<"commit", "branch", "push", "pull_request", "memory", "accepted">>, 1, k)
       /\ Len(done) >= 3 <=> pushes' = pushes + 1
       /\ Len(done) >= 4 <=> pulls' = pulls + 1
       /\ Len(done) >= 5 => published'.pr # NoPullRequest
       /\ accepted' <=> Len(done) = 6
       /\ pulls' = pulls + 1 =>
            /\ published'.pr.base = default_branch
            /\ shape = "full" => published'.pr.body = cand.reason]_vars

\* C28 witness: a candidate with a reason was accepted after all steps ran.
PublishedInOrder ==
  /\ accepted /\ shape = "full" /\ Len(published.steps) = 6
  /\ published.pr.body = cand.reason

\* The positions of the candidate loop.
InCandidateLoop == pc \in {"cand_loop", "apply", "publish", "reject"}

\* C29: the baseline is measured and the "before" snapshot taken exactly once
\* per repository, before the first candidate; the baseline score never changes
\* during the loop, not after a re-clone either, and every delta is computed
\* against it.
BaselineOnce ==
  [][/\ InCandidateLoop => baselined = [measured |-> 1, snapshots |-> 1]
     /\ (pc = "baseline" /\ pc' = "cand_loop") => (baselined = NotBaselined /\ idx' = 1)
     /\ (InCandidateLoop /\ pc' \in {"cand_loop", "apply", "publish", "reject", "snapshot_after"})
          => (meas_b' = meas_b /\ score_b' = score_b /\ baselined' = baselined)
     /\ (pc = "apply" /\ pc' # pc) => delta' = InlineDelta(score_b, score_a')]_vars

\* C29 witness: the first candidate is over without a push and the second
\* candidate was scored, against a baseline that was measured once.
SecondCandidateScored ==
  Scored /\ idx = 2 /\ pushes = 0 /\ baselined.measured = 1 /\ score_a # score_b

PublishOnlyAboveMargin ==
  [][(pushes' > pushes \/ pulls' > pulls) =>
       /\ pc = "publish"
       /\ delta = InlineDelta(score_b, score_a)
       /\ meets_margin(delta, IMPROVEMENT_MARGIN)]_vars

\* C31 witness: a branch was pushed for the second candidate after the first
\* one was rejected without a push.
PushedSecondCandidate == pc = "snapshot_after" /\ idx = 2 /\ pushes = 1 /\ pulls = 1

\* C32 (as stated): every candidate that reaches the publish step was
\* measured with passing tests.
PublishedHadPassingTests == pc = "publish" => meas_a.tests

\* C32 (amended): with a baseline score >= 0 and a positive margin every
\* candidate that reaches the publish step was measured with passing tests;
\* the gate itself compares the delta only.
PublishedHadPassingTestsAboveZero ==
  (pc = "publish" /\ score_b >= 0 /\ IMPROVEMENT_MARGIN > 0) => meas_a.tests

\* C32 witness: a candidate measured with passing tests reaches the publish
\* step from a positive baseline score.
PositiveBaselinePublish ==
  pc = "publish" /\ score_b > 0 /\ IMPROVEMENT_MARGIN > 0 /\ meas_a.tests /\ score_a > score_b

\* C33: for any repository at most one branch is pushed and at most one pull
\* request creation is attempted, also when the pull request creation fails
\* after the branch was pushed.
AtMostOnePublishAttempt == pushes <= 1 /\ pulls <= 1

\* C34: with the credential present and the kill switch never present, main
\* terminates, and by then every entry of the allowlist was handed to
\* process_repo exactly once, in allowlist order, whatever the clone, the
\* quality tools, the candidate source and the publish steps did: process_repo
\* is entered only from the loop of main for the entry the loop is at, the loop
\* moves on by one entry and only when process_repo returns, and the run ends
\* with the loop past the last entry.
RunTerminates ==
  /\ [][/\ (pc' = "process_repo" /\ pc # "process_repo")
             => (pc = "main_loop" /\ full' = full /\ full \in 1..allow)
        /\ full' # full
             => /\ full' = full + 1
                /\ \/ pc = "main" /\ full = 0
                   \/ InProcessRepo /\ pc' = "main_loop"
        /\ (pc = "main_loop" /\ pc' = "done") => full = allow + 1]_vars
  /\ <>[](pc = "done" /\ full = (IF allow = 0 THEN 0 ELSE allow + 1))

\* C34 witness: the run ended after the last entry of the allowlist although
\* an earlier repository ended by an exception that left its working copy.
RunEndedAfterFailures ==
  /\ pc = "done" /\ allow = MaxRepos /\ full = allow + 1
  /\ DOMAIN TreeAt(files, RepoDir(1)) # {}

====
